---- MODULE Spec2Model ----
(***************************************************************************)
(* Exit supervision of option positions (exit_manager.py).                 *)
(*                                                                         *)
(* ExitManager.start_monitor places a protective stop-sell at the broker   *)
(* and starts one thread per position running ExitManager._loop, which     *)
(* polls the stop order and the option quote and sells at take-profit.     *)
(*                                                                         *)
(* Prices are whole cents (2.00 is 200); multipliers are hundredths        *)
(* (1.90 is 190).  Python's None is NoneVal.  Every network call is one    *)
(* step of the thread, and the broker acts on its resting orders between   *)
(* any two steps.                                                          *)
(***************************************************************************)
EXTENDS Integers, Sequences, FiniteSets, TLC

\* ---------------------------------------------------------------- bounds
MaxPositions == 2
MaxSellAttempts == 2
MaxCycle == 3
MaxQuoteCents == 4

\* ---------------------------------------------------------------- inputs
NoneVal == -1
PositionIds == 1 .. MaxPositions
FillPrices == {NoneVal, -100, 0, 1, 200}
Quantities == {-1, 0, 1, 2}
TakeProfitMults == {40, 150, 190}
StopMults == {50}
QuoteResponses ==
    { [kind |-> "error", bid |-> 0,   ask |-> 0,   last |-> 0],
      [kind |-> "empty", bid |-> 0,   ask |-> 0,   last |-> 0],
      [kind |-> "quote", bid |-> 0,   ask |-> 0,   last |-> 0],
      [kind |-> "quote", bid |-> 0,   ask |-> 3,   last |-> 1],
      [kind |-> "quote", bid |-> 1,   ask |-> 3,   last |-> 500],
      [kind |-> "quote", bid |-> 2,   ask |-> 3,   last |-> 0],
      [kind |-> "quote", bid |-> 379, ask |-> 381, last |-> 0] }

VARIABLES
    pc,             \* per position: where its caller / monitor thread stands
    st,             \* per position: the state dict start_monitor builds
    px,             \* per position: the loop's local px before `or 0.0`
    brokerStop,     \* per position: the stop order as the broker holds it
    brokerSells,    \* per position: the take-profit sell orders at the broker
    sellLog,        \* per position: what each sell call returned to the loop
    cancelCalls,    \* per position: number of cancel_order calls issued
    stopObserved,   \* per position: the loop saw status "filled"
    cycle,          \* per position: current polling cycle, saturating
    lastEvent,      \* per position: the last call made and its outcome
    call,           \* per position: the arguments start_monitor was given
    stopPlaced,     \* per position: stop orders the broker accepted
    stopQueried,    \* per position: this cycle's status query came back
                    \* (or failed) without reporting the stop filled
    wh,             \* the webhook request being handled (routes.webhook)
    marketOpen,     \* the market is open (what /v2/clock reports as is_open)
    quoteIn,        \* a quote payload handed to mid_or_last
    quoteOut        \* what mid_or_last returned for it

exitVars == << pc, st, px, brokerStop, brokerSells, sellLog, cancelCalls,
               stopObserved, cycle, lastEvent, call, stopPlaced,
               stopQueried >>

webVars == << wh, marketOpen >>

quoteVars == << quoteIn, quoteOut >>

vars == << pc, st, px, brokerStop, brokerSells, sellLog, cancelCalls,
           stopObserved, cycle, lastEvent, call, stopPlaced, stopQueried,
           wh, marketOpen, quoteIn, quoteOut >>

\* ------------------------------------------------------------ pure helpers

\* round(x, 2) of a value given in hundredths of a cent.  A value half way
\* between two cents is a binary float just above or just below the half,
\* and round() follows the float: `up` says on which side it fell.
Round2(n, up) ==
    LET q == n \div 100
        r == n % 100
    IN  IF r < 50 THEN q
        ELSE IF r > 50 THEN q + 1
        ELSE IF up THEN q + 1 ELSE q

Max(a, b) == IF a >= b THEN a ELSE b

StopPrice(fill, stop_mult, up) == Max(1, Round2(fill * stop_mult, up))
TpPriceTruncated(fill, take_profit_mult, up) ==
    (fill * take_profit_mult) \div 100

TpPrice(fill, take_profit_mult, up) == Round2(fill * take_profit_mult, up)

\* TradierQuotes.mid_or_last: midpoint, else last, else None
MidOrLastBid(q, up) ==
    IF q.kind # "quote" THEN NoneVal
    ELSE IF q.bid > 0 /\ q.ask > 0 THEN q.bid
    ELSE IF q.last > 0 THEN q.last
    ELSE NoneVal

MidOrLast(q, up) ==
    IF q.kind # "quote" THEN NoneVal
    ELSE IF q.bid > 0 /\ q.ask > 0 THEN Round2((q.bid + q.ask) * 50, up)
    ELSE IF q.last > 0 THEN q.last
    ELSE NoneVal

\* `x or 0.0`
OrZero(x) == IF x = NoneVal \/ x = 0 THEN 0 ELSE x

NoState ==
    [symbol |-> 0, qty |-> 0, fill |-> 0, tp_price |-> 0, stop_price |-> 0,
     stop_id |-> NoneVal, tp_filled |-> FALSE, done |-> FALSE,
     use_mkt_tp |-> FALSE]

NoOrder == [status |-> "none", symbol |-> 0, qty |-> 0, stop_price |-> 0]

NoCall ==
    [fill |-> 0, qty |-> 0, take_profit_mult |-> 0, stop_mult |-> 0,
     use_market_for_tp |-> FALSE]

NoQuote == [kind |-> "empty", bid |-> 0, ask |-> 0, last |-> 0]

NoAnswer == [done |-> FALSE, value |-> NoneVal]

\* ids as the two systems hand them out: the database numbers its Order
\* rows, the broker names its orders by UUID; the two never coincide
DbOrderId == 1
EntryOrderId == 1001
\* the position a webhook enters, and with it its contract symbol
WebhookPosition == 1

NoEntry ==
    [status |-> "none", id |-> NoneVal, symbol |-> NoneVal, qty |-> 0,
     filled_avg_price |-> NoneVal]

NoWebhook ==
    [pc |-> "none", signal |-> "", qty |-> 0, order_status |-> "none",
     alpaca_order_id |-> NoneVal, entry |-> NoEntry,
     result |-> [pending |-> TRUE], exits_attached |-> FALSE,
     clock |-> "none", commit |-> "none"]

\* ------------------------------------------------------------------- Init
InitExit ==
    /\ pc = [p \in PositionIds |-> "idle"]
    /\ st = [p \in PositionIds |-> NoState]
    /\ px = [p \in PositionIds |-> NoneVal]
    /\ brokerStop = [p \in PositionIds |-> NoOrder]
    /\ brokerSells = [p \in PositionIds |-> << >>]
    /\ sellLog = [p \in PositionIds |-> << >>]
    /\ cancelCalls = [p \in PositionIds |-> 0]
    /\ stopObserved = [p \in PositionIds |-> FALSE]
    /\ cycle = [p \in PositionIds |-> 0]
    /\ lastEvent = [p \in PositionIds |-> "none"]
    /\ call = [p \in PositionIds |-> NoCall]
    /\ stopPlaced = [p \in PositionIds |-> 0]
    /\ stopQueried = [p \in PositionIds |-> FALSE]
    /\ wh = NoWebhook
    /\ marketOpen = FALSE

Init ==
    /\ InitExit
    /\ quoteIn = NoQuote
    /\ quoteOut = NoAnswer

\* ------------------------------------------------- ExitManager.start_monitor
\* What place_stop_sell can do: the broker accepts the order and answers
\* with or without an "id" field, answers with an error status, or accepts
\* the order while the answer is lost to a timeout.
StopPlacementOutcomes == {"accepted", "accepted_noid", "rejected", "lost"}

\* `assert fill_price and fill_price>0`
FillValidIfPresent(fill) == fill # NoneVal

FillValid(fill) == fill # NoneVal /\ fill # 0 /\ fill > 0

\* place_stop_sell raises (raise_for_status, timeout): start_monitor has no
\* handler, so the exception reaches the caller before the thread is made
PlaceStopRaisesNever(outcome) == FALSE

PlaceStopRaises(outcome) == outcome \in {"rejected", "lost"}

\* the broker holds a new stop order after the call
StopPlacesIfAnswered(outcome) == outcome = "accepted"

StopPlaces(outcome) == outcome \in {"accepted", "accepted_noid", "lost"}

\* `stop_id = stop.get("id")`: the broker's id of this position's order
StopIdShared(p, outcome) == IF outcome = "accepted" THEN 1 ELSE NoneVal

StopIdOf(p, outcome) == IF outcome = "accepted" THEN p ELSE NoneVal

StartCore(p, fill, qty, take_profit_mult, stop_mult, use_market_for_tp) ==
    /\ pc[p] = "idle"
    /\ call' = [call EXCEPT ![p] =
                  [fill |-> fill, qty |-> qty,
                   take_profit_mult |-> take_profit_mult,
                   stop_mult |-> stop_mult,
                   use_market_for_tp |-> use_market_for_tp]]
    /\ IF ~FillValid(fill)
       THEN /\ pc' = [pc EXCEPT ![p] = "start_failed"]
            /\ lastEvent' = [lastEvent EXCEPT ![p] = "start:assert"]
            /\ UNCHANGED << st, brokerStop, stopPlaced >>
       ELSE \E outcome \in StopPlacementOutcomes, upS \in BOOLEAN,
               upT \in BOOLEAN :
            LET stop_price == StopPrice(fill, stop_mult, upS)
                tp_price == TpPrice(fill, take_profit_mult, upT)
                order == [status |-> "new", symbol |-> p, qty |-> qty,
                          stop_price |-> stop_price]
            IN  /\ lastEvent' = [lastEvent EXCEPT ![p] = "start:" \o outcome]
                /\ brokerStop' = IF StopPlaces(outcome)
                                 THEN [brokerStop EXCEPT ![p] = order]
                                 ELSE brokerStop
                /\ stopPlaced' = IF StopPlaces(outcome)
                                 THEN [stopPlaced EXCEPT ![p] = @ + 1]
                                 ELSE stopPlaced
                /\ IF PlaceStopRaises(outcome)
                   THEN /\ pc' = [pc EXCEPT ![p] = "start_failed"]
                        /\ st' = st
                   ELSE /\ pc' = [pc EXCEPT ![p] = "loop"]
                        /\ st' = [st EXCEPT ![p] =
                              [symbol |-> p, qty |-> qty, fill |-> fill,
                               tp_price |-> tp_price,
                               stop_price |-> stop_price,
                               stop_id |-> StopIdOf(p, outcome),
                               tp_filled |-> FALSE, done |-> FALSE,
                               use_mkt_tp |-> use_market_for_tp]]
    /\ UNCHANGED << px, brokerSells, sellLog, cancelCalls, stopObserved,
                    cycle, stopQueried >>

StartMonitor(p) ==
    /\ \E fill \in FillPrices, qty \in Quantities,
          take_profit_mult \in TakeProfitMults, stop_mult \in StopMults,
          use_market_for_tp \in BOOLEAN :
         StartCore(p, fill, qty, take_profit_mult, stop_mult,
                   use_market_for_tp)
    /\ UNCHANGED << webVars, quoteVars >>

\* ------------------------------------------------------- ExitManager._loop
\* `while not st["done"]`, then `if st.get("stop_id")`
LoopTest(p) ==
    /\ pc[p] = "loop"
    /\ IF st[p].done
       THEN /\ pc' = [pc EXCEPT ![p] = "exit"]
            /\ UNCHANGED << cycle, stopQueried >>
       ELSE /\ pc' = [pc EXCEPT ![p] =
                       IF st[p].stop_id # NoneVal THEN "get_order"
                                                  ELSE "quote"]
            /\ cycle' = [cycle EXCEPT ![p] =
                         IF @ < MaxCycle THEN @ + 1 ELSE @]
            /\ stopQueried' = [stopQueried EXCEPT ![p] = FALSE]
    /\ UNCHANGED << st, px, brokerStop, brokerSells, sellLog, cancelCalls,
                    stopObserved, lastEvent >>
    /\ UNCHANGED << call, stopPlaced, webVars, quoteVars >>

\* `st["done"] = True` is followed by `break`: the thread leaves the loop
BreakFallsThrough == "sleep"

Break == "exit"

\* a) broker.get_order(stop_id) inside try/except
\* `if od.get("status") == "filled"`
IsFilledNever(status) == FALSE

IsFilledOrClosed(status) == status # "new"

IsFilled(status) == status = "filled"

\* `except Exception: pass` falls through to the take-profit check
GetOrderExceptUncaught == "exit"

GetOrderExcept == "quote"

GetOrder(p) ==
    /\ pc[p] = "get_order"
    /\ \E outcome \in {"ok", "error"} :
         IF outcome = "ok" /\ IsFilled(brokerStop[st[p].stop_id].status)
         THEN /\ st' = [st EXCEPT ![p].done = TRUE]
              /\ pc' = [pc EXCEPT ![p] = Break]
              /\ stopObserved' = [stopObserved EXCEPT ![p] = TRUE]
              /\ lastEvent' = [lastEvent EXCEPT ![p] = "get_order:filled"]
              /\ stopQueried' = stopQueried
         ELSE /\ pc' = [pc EXCEPT ![p] =
                          IF outcome = "ok" THEN "quote" ELSE GetOrderExcept]
              /\ lastEvent' = [lastEvent EXCEPT ![p] =
                                 IF outcome = "ok" THEN "get_order:other"
                                                   ELSE "get_order:error"]
              /\ stopQueried' = [stopQueried EXCEPT ![p] = TRUE]
              /\ UNCHANGED << st, stopObserved >>
    /\ UNCHANGED << px, brokerStop, brokerSells, sellLog, cancelCalls,
                    cycle >>
    /\ UNCHANGED << call, stopPlaced, webVars, quoteVars >>

\* b) px = quotes.mid_or_last(symbol) or 0.0, and the take-profit test
TpTriggered(s, price) == price >= s.tp_price /\ ~s.tp_filled

QuoteCore(p, responses) ==
    /\ pc[p] = "quote"
    /\ \E q \in responses, up \in BOOLEAN :
         /\ px' = [px EXCEPT ![p] = MidOrLast(q, up)]
         /\ lastEvent' = [lastEvent EXCEPT ![p] =
                            IF MidOrLast(q, up) = NoneVal
                            THEN "quote:unavailable" ELSE "quote:price"]
         /\ pc' = [pc EXCEPT ![p] =
                     IF TpTriggered(st[p], OrZero(MidOrLast(q, up)))
                     THEN "sell" ELSE "sleep"]
    /\ UNCHANGED << st, brokerStop, brokerSells, sellLog, cancelCalls,
                    stopObserved, cycle >>
    /\ UNCHANGED << call, stopPlaced, stopQueried, webVars, quoteVars >>

Quote(p) == QuoteCore(p, QuoteResponses)

\* place_market_sell / place_limit_sell as the loop calls them;
\* place_limit_sell sends round(float(limit_price), 2)
TpOrderMarketOnly(s, up) ==
    [side |-> "sell", type |-> "market", symbol |-> s.symbol, qty |-> s.qty,
     limit_price |-> NoneVal, filled |-> FALSE]

TpOrder(s, up) ==
    IF s.use_mkt_tp
    THEN [side |-> "sell", type |-> "market", symbol |-> s.symbol,
          qty |-> s.qty, limit_price |-> NoneVal, filled |-> FALSE]
    ELSE [side |-> "sell", type |-> "limit", symbol |-> s.symbol,
          qty |-> s.qty, limit_price |-> Round2(s.tp_price * 100, up),
          filled |-> FALSE]

\* accepted: 2xx with a JSON body; rejected: nothing placed and the call
\* raises; lost: the broker placed the order and the call raises (timeout)
SellOutcomes == {"accepted", "rejected", "lost"}

SellPlaces(outcome) == outcome \in {"accepted", "lost"}

\* the statements after the sell call run only when it did not raise
SellReturnsAlways(outcome) == TRUE

SellReturns(outcome) == outcome = "accepted"

Sell(p) ==
    /\ pc[p] = "sell"
    /\ Len(sellLog[p]) < MaxSellAttempts
    /\ \E outcome \in SellOutcomes, up \in BOOLEAN :
         /\ sellLog' = [sellLog EXCEPT ![p] = Append(@, outcome)]
         /\ lastEvent' = [lastEvent EXCEPT ![p] =
                            "sell:" \o outcome]
         /\ brokerSells' = IF SellPlaces(outcome)
                           THEN [brokerSells EXCEPT
                                   ![p] = Append(@, TpOrder(st[p], up))]
                           ELSE brokerSells
         /\ IF SellReturns(outcome)
            THEN /\ st' = [st EXCEPT ![p].tp_filled = TRUE]
                 /\ pc' = [pc EXCEPT ![p] = "cancel"]
            ELSE /\ st' = st
                 /\ pc' = [pc EXCEPT ![p] = "sleep"]
    /\ UNCHANGED << px, brokerStop, cancelCalls, stopObserved, cycle >>
    /\ UNCHANGED << call, stopPlaced, stopQueried, webVars, quoteVars >>

\* `if st.get("stop_id"): broker.cancel_order(stop_id)`, then done = True.
\* cancel_order returns the status code whatever it is and raises only on a
\* transport failure, which may happen before or after the broker acted.
CancelOutcomes == {"204", "404", "500", "raise", "raise_landed"}

CancelReturns(outcome) == outcome \in {"204", "404", "500"}

Cancel(p) ==
    /\ pc[p] = "cancel"
    /\ IF st[p].stop_id = NoneVal
       THEN /\ st' = [st EXCEPT ![p].done = TRUE]
            /\ pc' = [pc EXCEPT ![p] = Break]
            /\ UNCHANGED << brokerStop, cancelCalls, lastEvent >>
       ELSE \E outcome \in CancelOutcomes :
            LET id == st[p].stop_id
                resting == brokerStop[id].status = "new"
            IN  /\ outcome \in {"204", "raise_landed"} => resting
                /\ outcome = "404" => ~resting
                /\ cancelCalls' = [cancelCalls EXCEPT ![p] = @ + 1]
                /\ brokerStop' = IF outcome \in {"204", "raise_landed"}
                                 THEN [brokerStop EXCEPT
                                         ![id].status = "canceled"]
                                 ELSE brokerStop
                /\ lastEvent' = [lastEvent EXCEPT ![p] =
                                   IF CancelReturns(outcome)
                                   THEN "cancel:" \o outcome
                                   ELSE "cancel:error"]
                /\ IF CancelReturns(outcome)
                   THEN /\ st' = [st EXCEPT ![p].done = TRUE]
                        /\ pc' = [pc EXCEPT ![p] = Break]
                   ELSE /\ st' = st
                        /\ pc' = [pc EXCEPT ![p] = "sleep"]
    /\ UNCHANGED << px, brokerSells, sellLog, stopObserved, cycle >>
    /\ UNCHANGED << call, stopPlaced, stopQueried, webVars, quoteVars >>

\* time.sleep(self.poll_sec)
Sleep(p) ==
    /\ pc[p] = "sleep"
    /\ pc' = [pc EXCEPT ![p] = "loop"]
    /\ UNCHANGED << st, px, brokerStop, brokerSells, sellLog, cancelCalls,
                    stopObserved, cycle, lastEvent >>
    /\ UNCHANGED << call, stopPlaced, stopQueried, webVars, quoteVars >>

\* ------------------------------------------------------------- the broker
\* A resting stop order fills whenever the market trades through it.
BrokerFillStop(p) ==
    /\ brokerStop[p].status = "new"
    /\ brokerStop' = [brokerStop EXCEPT ![p].status = "filled"]
    /\ UNCHANGED << pc, st, px, brokerSells, sellLog, cancelCalls,
                    stopObserved, cycle, lastEvent >>
    /\ UNCHANGED << call, stopPlaced, stopQueried, webVars, quoteVars >>

\* A day order leaves the book unfilled: expired, canceled or rejected.
BrokerCloseStop(p) ==
    /\ brokerStop[p].status = "new"
    /\ \E s \in {"canceled", "expired", "rejected"} :
         brokerStop' = [brokerStop EXCEPT ![p].status = s]
    /\ UNCHANGED << pc, st, px, brokerSells, sellLog, cancelCalls,
                    stopObserved, cycle, lastEvent >>
    /\ UNCHANGED << call, stopPlaced, stopQueried, webVars, quoteVars >>

\* A sell order the broker holds executes.
BrokerFillSell(p) ==
    /\ \E i \in 1 .. Len(brokerSells[p]) :
         /\ ~brokerSells[p][i].filled
         /\ brokerSells' = [brokerSells EXCEPT ![p][i].filled = TRUE]
    /\ UNCHANGED << pc, st, px, brokerStop, sellLog, cancelCalls,
                    stopObserved, cycle, lastEvent >>
    /\ UNCHANGED << call, stopPlaced, stopQueried, webVars, quoteVars >>

\* ------------------------------------------------------------ the machine
Step(p) ==
    \/ StartMonitor(p)
    \/ LoopTest(p)
    \/ GetOrder(p)
    \/ Quote(p)
    \/ Sell(p)
    \/ Cancel(p)
    \/ Sleep(p)
    \/ BrokerFillStop(p)
    \/ BrokerCloseStop(p)
    \/ BrokerFillSell(p)

\* One supervised position.
Next == Step(1)

Spec == Init /\ [][Next]_vars

\* ------------------------------------------------------ fair scheduling
\* The steps of the monitoring thread of p.  The thread is a daemon thread
\* of a running process: the scheduler lets it take its next step.
Thread(p) ==
    \/ LoopTest(p)
    \/ GetOrder(p)
    \/ Quote(p)
    \/ Sell(p)
    \/ Cancel(p)
    \/ Sleep(p)

\* a status query that the broker answers
GetOrderAnswered(p) == GetOrder(p) /\ lastEvent'[p] # "get_order:error"

\* the thread keeps running, and status queries do not fail for ever
Fairness ==
    /\ WF_vars(Thread(1))
    /\ SF_vars(GetOrderAnswered(1))

SpecFair == Init /\ [][Next]_vars /\ Fairness

\* --------------------------------------------- two supervised positions
\* Two positions entered by the webhook with a CALL signal: quantity 1 at
\* 2.00, multipliers 1.90 / 0.50, market take-profit (routes.webhook).  The
\* quote is either unavailable or at the take-profit level.
MultiPositions == {1, 2}

SupervisedQuotes ==
    { [kind |-> "error", bid |-> 0,   ask |-> 0,   last |-> 0],
      [kind |-> "quote", bid |-> 379, ask |-> 381, last |-> 0] }

StartSupervised(p) ==
    /\ StartCore(p, 200, 1, 190, 50, TRUE)
    /\ UNCHANGED << webVars, quoteVars >>

QuoteSupervised(p) == QuoteCore(p, SupervisedQuotes)

NextMulti ==
    \E p \in MultiPositions :
        \/ StartSupervised(p)
        \/ LoopTest(p)
        \/ GetOrder(p)
        \/ QuoteSupervised(p)
        \/ Sell(p)
        \/ Cancel(p)
        \/ Sleep(p)
        \/ BrokerFillStop(p)

SpecMulti == Init /\ [][NextMulti]_vars

\* ----------------------------------------------------- the webhook request
\* routes.webhook hands the normalized signal to
\* TradingService.process_webhook_signal, then tries to attach the exits.
WebhookSignals == {"CALL", "PUT"}
WebhookQtys == {0, 1, 2, 3}
EntryFillPrices == {1, 200}

\* dict.get(key): None when the key is absent
Get(r, k) == IF k \in DOMAIN r THEN r[k] ELSE NoneVal

Truthy(x) == x # NoneVal /\ x # 0

\* Python's `a or b`
PyOr(a, b) == IF Truthy(a) THEN a ELSE b

\* the except branch of process_webhook_signal (lines 311-321): the record
\* becomes failed unless it is queued or submitted already, the session is
\* committed once more and the error result returned; when that commit
\* raises too, the exception reaches routes.webhook, which answers 500
ErrorResult(order_id) ==
    [success |-> FALSE, error |-> TRUE, order_id |-> order_id]

InternalError == [success |-> FALSE, error |-> TRUE, http |-> 500]

FailedStatusUnguarded(status) ==
    IF status = "none" THEN status ELSE "failed"

FailedStatus(status) ==
    IF status \in {"none", "queued", "submitted"} THEN status ELSE "failed"

CommitOutcomes == {"ok", "raise"}

Except(w, order_id, commit) ==
    [w EXCEPT !.pc = IF commit = "ok" THEN "attach" ELSE "done",
              !.order_status = FailedStatus(@),
              !.result = IF commit = "ok" THEN ErrorResult(order_id)
                                          ELSE InternalError]

WebhookReceive ==
    /\ wh.pc = "none"
    /\ \E signal \in WebhookSignals, qty \in WebhookQtys :
         wh' = [wh EXCEPT !.pc = "validate", !.signal = signal, !.qty = qty]
    /\ UNCHANGED << exitVars, marketOpen, quoteVars >>

\* lines 227-257: log, validate, create the Order row as "processing"
ServiceValidate ==
    /\ wh.pc = "validate"
    /\ \E commit \in CommitOutcomes :
         IF wh.qty <= 0
         THEN wh' = Except(wh, NoneVal, commit)
         ELSE wh' = [wh EXCEPT !.pc = "contract",
                               !.order_status = "processing"]
    /\ UNCHANGED << exitVars, marketOpen, quoteVars >>

\* lines 259-267: get_atm_option_contract finds a symbol, finds none, or
\* raises
ServiceContract ==
    /\ wh.pc = "contract"
    /\ \E outcome \in {"found", "none", "raise"}, commit \in CommitOutcomes :
         IF outcome = "found"
         THEN wh' = [wh EXCEPT !.pc = "clock"]
         ELSE wh' = Except(wh, DbOrderId, commit)
    /\ UNCHANGED << exitVars, marketOpen, quoteVars >>

\* market_open_now (lines 108-116): a failed clock call counts as open
MarketOpenNowAlways(clock) == TRUE

MarketOpenNow(clock) == clock \in {"open", "error"}

\* what GET /v2/clock can produce while the market is in state `open`
ClockReadings(open) == {IF open THEN "open" ELSE "closed", "error"}

QueuedResult ==
    [success |-> FALSE, error |-> TRUE, action |-> "queued",
     order_id |-> DbOrderId, contract_symbol |-> WebhookPosition]

\* lines 269-275: queue the order when the market is closed
ServiceClock ==
    /\ wh.pc = "clock"
    /\ \E clock \in ClockReadings(marketOpen) :
         IF ~MarketOpenNow(clock)
         THEN wh' = [wh EXCEPT !.pc = "commit",
                               !.clock = clock,
                               !.order_status = "queued",
                               !.result = QueuedResult]
         ELSE wh' = [wh EXCEPT !.pc = "place", !.clock = clock]
    /\ UNCHANGED << exitVars, marketOpen, quoteVars >>

\* lines 287-298 with place_market_order (lines 191-219): the broker
\* accepts the buy and answers with or without an id, refuses it, or
\* accepts it while the answer is lost
EntryOutcomes == {"accepted", "accepted_noid", "rejected", "lost"}

ServicePlace ==
    /\ wh.pc = "place"
    /\ \E outcome \in EntryOutcomes, commit \in CommitOutcomes :
         LET entry == [status |-> "new", id |-> EntryOrderId,
                       symbol |-> WebhookPosition, qty |-> wh.qty,
                       filled_avg_price |-> NoneVal]
             placed == outcome # "rejected"
             hasId == outcome = "accepted"
         IN  IF outcome \in {"rejected", "lost"}
             THEN wh' = Except([wh EXCEPT !.entry = IF placed THEN entry
                                                            ELSE @],
                               DbOrderId, commit)
             ELSE wh' = [wh EXCEPT
                           !.pc = "commit",
                           !.entry = entry,
                           !.alpaca_order_id =
                               IF hasId THEN EntryOrderId ELSE NoneVal,
                           !.order_status =
                               IF hasId THEN "submitted" ELSE "failed",
                           !.result =
                               [success |-> hasId, message |-> TRUE,
                                order_id |-> DbOrderId,
                                contract_symbol |-> WebhookPosition,
                                alpaca_order_id |->
                                  IF hasId THEN EntryOrderId ELSE NoneVal]]
    /\ UNCHANGED << exitVars, marketOpen, quoteVars >>

\* db.session.commit() at line 276 or 300, then the return; a commit that
\* raises hands over to the except branch
ServiceCommit ==
    /\ wh.pc = "commit"
    /\ \E commit \in CommitOutcomes, again \in CommitOutcomes :
         IF commit = "ok"
         THEN wh' = [wh EXCEPT !.pc = "attach", !.commit = commit]
         ELSE wh' = Except([wh EXCEPT !.commit = commit], DbOrderId, again)
    /\ UNCHANGED << exitVars, marketOpen, quoteVars >>

\* the exchange opens and closes
MarketOpens ==
    /\ ~marketOpen
    /\ marketOpen' = TRUE
    /\ UNCHANGED << exitVars, wh, quoteVars >>

MarketCloses ==
    /\ marketOpen
    /\ marketOpen' = FALSE
    /\ UNCHANGED << exitVars, wh, quoteVars >>

\* the broker executes the entry buy
BrokerFillEntry ==
    /\ wh.entry.status = "new"
    /\ \E price \in EntryFillPrices :
         wh' = [wh EXCEPT !.entry.status = "filled",
                          !.entry.filled_avg_price = price]
    /\ UNCHANGED << exitVars, marketOpen, quoteVars >>

\* routes.webhook lines 195-247: find symbol, fill price and order id in
\* the service result, ask the broker when something is missing, and start
\* the monitor when symbol and fill price are known
OrderIdForLookup(result) ==
    PyOr(Get(result, "order_id"),
         PyOr(Get(result, "alpaca_order_id"), Get(result, "entry_id")))

SideTpMult(signal) == IF signal = "CALL" THEN 190 ELSE 150

WebhookAttach ==
    /\ wh.pc = "attach"
    /\ \E net \in {"ok", "error"} :
         LET result == wh.result
             symbol0 == PyOr(Get(result, "option_symbol"),
                             Get(result, "symbol"))
             fill0 == PyOr(Get(result, "fill_price"),
                           Get(result, "filled_avg_price"))
             order_id == OrderIdForLookup(result)
             lookup == Truthy(order_id)
                       /\ (~Truthy(symbol0) \/ ~Truthy(fill0))
             found == /\ lookup
                      /\ net = "ok"
                      /\ wh.entry.status # "none"
                      /\ wh.entry.id = order_id
             option_symbol == IF found THEN PyOr(symbol0, wh.entry.symbol)
                                       ELSE symbol0
             fill_price == IF found /\ ~Truthy(fill0)
                              /\ Truthy(wh.entry.filled_avg_price)
                           THEN wh.entry.filled_avg_price ELSE fill0
         IN  IF Truthy(option_symbol) /\ Truthy(fill_price)
             THEN /\ StartCore(option_symbol, fill_price, wh.qty,
                               SideTpMult(wh.signal), 50, TRUE)
                  /\ wh' = [wh EXCEPT
                              !.pc = "done",
                              !.exits_attached =
                                  (pc'[option_symbol] = "loop")]
             ELSE /\ wh' = [wh EXCEPT !.pc = "done"]
                  /\ UNCHANGED exitVars
    /\ UNCHANGED << marketOpen, quoteVars >>

\* the steps of the request handler
Request ==
    \/ WebhookReceive
    \/ ServiceValidate
    \/ ServiceContract
    \/ ServiceClock
    \/ ServicePlace
    \/ ServiceCommit
    \/ WebhookAttach

NextWebhook ==
    \/ Request
    \/ BrokerFillEntry
    \/ MarketOpens
    \/ MarketCloses

SpecWebhook == Init /\ [][NextWebhook]_vars

\* the server keeps handling the request, and the exchange opens
FairnessWebhook ==
    /\ WF_vars(Request)
    /\ WF_vars(MarketOpens)

SpecWebhookFair == SpecWebhook /\ FairnessWebhook

\* process_webhook_signal has returned a result to routes.webhook
Returned ==
    \/ wh.pc = "attach"
    \/ wh.pc = "done" /\ wh.result # InternalError

\* ------------------------------------------------ mid_or_last on its own
\* Every quote payload with bid, ask and last up to MaxQuoteCents, a
\* payload without a quote, and a failed request.
QuoteGrid ==
    [kind : {"error", "empty", "quote"}, bid : 0 .. MaxQuoteCents,
     ask : 0 .. MaxQuoteCents, last : 0 .. MaxQuoteCents]

InitQuote ==
    /\ InitExit
    /\ quoteIn \in QuoteGrid
    /\ quoteOut = NoAnswer

MidOrLastCall ==
    /\ ~quoteOut.done
    /\ \E up \in BOOLEAN :
         quoteOut' = [done |-> TRUE, value |-> MidOrLast(quoteIn, up)]
    /\ UNCHANGED << exitVars, webVars, quoteIn >>

SpecQuote == InitQuote /\ [][MidOrLastCall]_vars

\* ------------------------------------------------------ derived quantities
RECURSIVE SumFilled(_)
SumFilled(orders) ==
    IF orders = << >> THEN 0
    ELSE (IF Head(orders).filled THEN Head(orders).qty ELSE 0)
         + SumFilled(Tail(orders))

\* contracts sold by the exit orders that executed
SoldQty(p) ==
    (IF brokerStop[p].status = "filled" THEN brokerStop[p].qty ELSE 0)
    + SumFilled(brokerSells[p])

TpPlaced(p) == Len(brokerSells[p])

Started(p) == pc[p] \notin {"idle", "start_failed"}

TypeOK ==
    /\ \A p \in PositionIds :
         /\ pc[p] \in {"idle", "start_failed", "loop", "get_order", "quote",
                       "sell", "cancel", "sleep", "exit"}
         /\ st[p].stop_id \in {NoneVal, p}
         /\ cycle[p] \in 0 .. MaxCycle
         /\ cancelCalls[p] \in 0 .. 1
         /\ Len(sellLog[p]) <= MaxSellAttempts

\* the monitor thread of p ended on the take-profit path
TpTerminal(p) == pc[p] = "exit" /\ st[p].done /\ ~stopObserved[p]

\* the monitor thread of p ended because it saw the stop filled
StopTerminal(p) == pc[p] = "exit" /\ st[p].done /\ stopObserved[p]

\* a supervised position as the webhook creates them: the stop order came
\* back with its id and the take-profit price is a positive price
Ordinary(p) ==
    /\ Started(p)
    /\ st[p].stop_id # NoneVal
    /\ st[p].tp_price > 0
    /\ st[p].qty > 0

\* ================================================================== claims
\* C1-C5 and C7 are stated for ordinary positions, which is where they
\* already fail.

\* C1: a monitor never holds both outcomes: the take-profit sell was
\* submitted successfully (tp_filled) and it terminated because it saw the
\* stop order filled.
C1_ExclusiveOutcomes ==
    \A p \in PositionIds :
        Ordinary(p) => ~(st[p].tp_filled /\ StopTerminal(p))

\* C2: at most one take-profit sell order is ever placed at the broker for
\* a position, whatever sell submissions failed on earlier cycles.
C2_AtMostOneTpOrder ==
    \A p \in PositionIds : Ordinary(p) => TpPlaced(p) <= 1

\* C3: when the monitor has terminated on the take-profit path, the
\* protective stop order is no longer resting at the broker.
C3_NoRestingStopAfterTp ==
    \A p \in PositionIds :
        (Ordinary(p) /\ TpTerminal(p) /\ cancelCalls[p] = 1)
        => brokerStop[p].status # "new"

\* C4: the quantity sold by the exit orders that executed (stop sell plus
\* take-profit sells) never exceeds the entered quantity.
C4_NoOversell ==
    \A p \in PositionIds : Ordinary(p) => SoldQty(p) <= st[p].qty

\* C5: once the take-profit sell submission has succeeded, the monitor sets
\* done and stops polling in that same cycle, whatever the cancel call does.
C5_TpSuccessTerminates ==
    \A p \in PositionIds :
        (Ordinary(p) /\ st[p].tp_filled /\ pc[p] # "cancel")
        => TpTerminal(p)

\* C6: a status query that returns filled ends the monitor in that step,
\* with no quote fetched and no sell submitted; afterwards nothing is ever
\* submitted; and when this happens on the first poll the position never
\* had a take-profit order or a sell attempt at all.
C6_FilledStep ==
    \A p \in PositionIds :
        ( /\ pc[p] = "get_order"
          /\ pc'[p] # "get_order"
          /\ lastEvent'[p] # "get_order:error"
          /\ brokerStop[st[p].stop_id].status = "filled" )
        => /\ st'[p].done
           /\ pc'[p] = "exit"
           /\ stopObserved'[p]
           /\ px'[p] = px[p]
           /\ Len(brokerSells'[p]) = Len(brokerSells[p])
           /\ sellLog'[p] = sellLog[p]

C6_NoSellAfterStop ==
    \A p \in PositionIds :
        stopObserved[p] => /\ Len(brokerSells'[p]) = Len(brokerSells[p])
                           /\ sellLog'[p] = sellLog[p]
                           /\ pc'[p] = pc[p]

C6_FirstPoll ==
    \A p \in PositionIds :
        (stopObserved[p] /\ cycle[p] = 1)
        => /\ TpPlaced(p) = 0
           /\ sellLog[p] = << >>
           /\ px[p] = NoneVal
           /\ pc[p] = "exit"

C6_StopFilledNoTp ==
    /\ [][C6_FilledStep]_vars
    /\ [][C6_NoSellAfterStop]_vars
    /\ []C6_FirstPoll

C6_Witness ==
    /\ StopTerminal(1)
    /\ cycle[1] = 1
    /\ lastEvent[1] = "get_order:filled"
    /\ TpPlaced(1) = 0

\* C7: when the take-profit triggers with the stop still pending and the
\* broker accepts the sell, the monitor has submitted exactly one exit
\* order, attempted exactly one cancellation and reached TakeProfitFilled.
C7_TpPathCompletes ==
    \A p \in PositionIds :
        ( /\ Ordinary(p)
          /\ sellLog[p] = << "accepted" >>
          /\ pc[p] # "cancel" )
        => /\ TpPlaced(p) = 1
           /\ cancelCalls[p] = 1
           /\ TpTerminal(p)

\* C8: in a cycle whose quote fetch reports the price unavailable the
\* monitor submits no sell order: it goes to sleep and polls again.
C8_UnavailableNoSell ==
    \A p \in PositionIds : px[p] = NoneVal => pc[p] # "sell"

\* C9: a rejected take-profit submission leaves the monitor Active with
\* tp_filled false, no order placed and no cancel attempted; and when the
\* submissions of a position are rejections followed by one accepted sell,
\* exactly one exit order has been placed in total.
C9_RejectedStep ==
    \A p \in PositionIds :
        (pc[p] = "sell" /\ sellLog'[p] = Append(sellLog[p], "rejected"))
        => /\ pc'[p] = "sleep"
           /\ ~st'[p].tp_filled
           /\ ~st'[p].done
           /\ cancelCalls'[p] = cancelCalls[p]
           /\ brokerSells'[p] = brokerSells[p]
           /\ brokerStop'[p] = brokerStop[p]

C9_RejectedThenAccepted ==
    \A p \in PositionIds :
        ( /\ sellLog[p] # << >>
          /\ sellLog[p][Len(sellLog[p])] = "accepted"
          /\ \A i \in 1 .. (Len(sellLog[p]) - 1) :
                 sellLog[p][i] = "rejected" )
        => TpPlaced(p) = 1

C9_RetryPlacesOne ==
    /\ [][C9_RejectedStep]_vars
    /\ []C9_RejectedThenAccepted

C9_Witness ==
    /\ sellLog[1] = << "rejected", "accepted" >>
    /\ cycle[1] = 2
    /\ TpPlaced(1) = 1
    /\ st[1].tp_filled

\* C10: a failing call inside the loop never ends the monitoring thread:
\* the step after a failed status query, quote fetch, sell or cancel leaves
\* the thread running with done unchanged, and the thread has only ended
\* when done is set.
FailureEvents ==
    {"get_order:error", "quote:unavailable", "sell:rejected", "sell:lost",
     "cancel:error"}

C10_FailureStep ==
    \A p \in PositionIds :
        ( /\ pc[p] \in {"get_order", "quote", "sell", "cancel"}
          /\ pc'[p] # pc[p]
          /\ lastEvent'[p] \in FailureEvents )
        => /\ pc'[p] \in {"quote", "sell", "sleep"}
           /\ st'[p].done = st[p].done

C10_ExitOnlyWhenDone ==
    \A p \in PositionIds :
        /\ pc[p] = "exit" => st[p].done
        /\ pc[p] = "sleep" => ENABLED Sleep(p)

C10_FailuresNotFatal ==
    /\ [][C10_FailureStep]_vars
    /\ []C10_ExitOnlyWhenDone

C10_Witness ==
    /\ pc[1] = "sleep"
    /\ lastEvent[1] = "cancel:error"
    /\ cycle[1] = 2
    /\ sellLog[1] = << "lost", "accepted" >>
    /\ ~st[1].done

\* C11: when the protective stop submission fails, start_monitor fails:
\* no monitoring thread is started, the state dict is never built and no
\* other order is ever placed for the position.
C11_FailedStart ==
    \A p \in PositionIds :
        lastEvent[p] \in {"start:rejected", "start:lost"}
        => /\ pc[p] = "start_failed"
           /\ st[p] = NoState
           /\ cycle[p] = 0
           /\ brokerSells[p] = << >>
           /\ sellLog[p] = << >>
           /\ cancelCalls[p] = 0
           /\ stopPlaced[p] <= 1

C11_FailedStartStays ==
    \A p \in PositionIds :
        pc[p] = "start_failed"
        => /\ pc'[p] = "start_failed"
           /\ brokerSells'[p] = brokerSells[p]
           /\ stopPlaced'[p] = stopPlaced[p]

C11_StopFailurePropagates ==
    /\ []C11_FailedStart
    /\ [][C11_FailedStartStays]_vars

C11_Witness ==
    /\ lastEvent[1] = "start:rejected"
    /\ pc[1] = "start_failed"
    /\ call[1].fill = 200
    /\ brokerStop[1].status = "none"

\* C12: start_monitor given an entry price that is missing, zero or
\* negative fails before anything is sent to the broker and before a
\* monitoring thread exists.
C12_BadFillFailsEarly ==
    \A p \in PositionIds :
        (pc[p] # "idle" /\ (call[p].fill = NoneVal \/ call[p].fill <= 0))
        => /\ pc[p] = "start_failed"
           /\ lastEvent[p] = "start:assert"
           /\ brokerStop[p].status = "none"
           /\ stopPlaced[p] = 0
           /\ brokerSells[p] = << >>
           /\ st[p] = NoState

C12_Witness ==
    /\ call[1].fill = 0
    /\ call[1].qty = 1
    /\ pc[1] = "start_failed"
    /\ lastEvent[1] = "start:assert"

\* C13: start_monitor given a quantity that is zero or negative is rejected
\* as invalid input, before any order is submitted to the broker.
C13_BadQtyRejected ==
    \A p \in PositionIds :
        (pc[p] # "idle" /\ call[p].qty <= 0)
        => /\ pc[p] = "start_failed"
           /\ lastEvent[p] = "start:assert"
           /\ brokerStop[p].status = "none"
           /\ stopPlaced[p] = 0

\* C14: the monitoring loop never places a stop order: a monitored position
\* has exactly the one stop order its start_monitor call placed, and no
\* step taken while its thread exists changes that count or the order's
\* symbol, quantity or price.
LoopPcs == {"loop", "get_order", "quote", "sell", "cancel", "sleep", "exit"}

C14_OneStop ==
    \A p \in PositionIds :
        Started(p) => /\ stopPlaced[p] = 1
                      /\ brokerStop[p].status # "none"

C14_LoopKeepsStop ==
    \A p \in PositionIds :
        pc[p] \in LoopPcs
        => /\ stopPlaced'[p] = stopPlaced[p]
           /\ brokerStop'[p].symbol = brokerStop[p].symbol
           /\ brokerStop'[p].qty = brokerStop[p].qty
           /\ brokerStop'[p].stop_price = brokerStop[p].stop_price

C14_LoopNeverPlacesStop ==
    /\ []C14_OneStop
    /\ [][C14_LoopKeepsStop]_vars

C14_Witness ==
    /\ pc[1] = "get_order"
    /\ cycle[1] = 3
    /\ sellLog[1] = << "rejected", "lost" >>
    /\ stopPlaced[1] = 1

\* C15: for an accepted call, take_profit_price is entry_price times
\* take_profit_mult rounded to the nearest cent and stop_price is
\* entry_price times stop_mult rounded to the nearest cent, but at least
\* 0.01; entry 2.00 gives stop 1.00 at 0.50 and take-profit 3.80 at 1.90.
\* t is n hundredths of a cent rounded to whole cents
NearestCent(t, n) == 100 * t - 50 <= n /\ n <= 100 * t + 50

C15_PricesRounded ==
    \A p \in PositionIds :
        Started(p)
        => LET c == call[p] IN
           /\ NearestCent(st[p].tp_price, c.fill * c.take_profit_mult)
           /\ \E r \in 0 .. ((c.fill * c.stop_mult) \div 100 + 1) :
                 /\ NearestCent(r, c.fill * c.stop_mult)
                 /\ st[p].stop_price = (IF r >= 1 THEN r ELSE 1)
           /\ (c.fill = 200 /\ c.stop_mult = 50) => st[p].stop_price = 100
           /\ (c.fill = 200 /\ c.take_profit_mult = 190)
                  => st[p].tp_price = 380

C15_Witness ==
    /\ Started(1)
    /\ call[1].fill = 200
    /\ call[1].stop_mult = 50
    /\ call[1].take_profit_mult = 190
    /\ st[1].stop_price = 100
    /\ st[1].tp_price = 380

\* C16: for every position start_monitor accepts, stop_price and
\* take_profit_price are strictly positive, and they, the symbol, the
\* quantity and the stop order id never change while the monitor lives.
C16_Positive ==
    \A p \in PositionIds :
        (Started(p) /\ st[p].qty > 0)
        => st[p].stop_price > 0 /\ st[p].tp_price > 0

C16_Immutable ==
    \A p \in PositionIds :
        Started(p) => /\ st'[p].stop_price = st[p].stop_price
                      /\ st'[p].tp_price = st[p].tp_price
                      /\ st'[p].symbol = st[p].symbol
                      /\ st'[p].qty = st[p].qty
                      /\ st'[p].stop_id = st[p].stop_id

C16_PositiveImmutablePrices ==
    /\ []C16_Positive
    /\ [][C16_Immutable]_vars

\* C17: with several positions supervised at once, a step changes the
\* monitoring state and the broker orders of one position only, and the
\* orders a monitor queries, cancels or submits carry its own symbol.
Touched(p) ==
    \/ pc'[p] # pc[p]
    \/ st'[p] # st[p]
    \/ px'[p] # px[p]
    \/ brokerStop'[p] # brokerStop[p]
    \/ brokerSells'[p] # brokerSells[p]
    \/ sellLog'[p] # sellLog[p]
    \/ cancelCalls'[p] # cancelCalls[p]
    \/ stopObserved'[p] # stopObserved[p]
    \/ cycle'[p] # cycle[p]
    \/ lastEvent'[p] # lastEvent[p]
    \/ call'[p] # call[p]
    \/ stopPlaced'[p] # stopPlaced[p]
    \/ stopQueried'[p] # stopQueried[p]

C17_OnePositionPerStep ==
    \A p, q \in PositionIds : p # q => ~(Touched(p) /\ Touched(q))

C17_OwnOrders ==
    \A p \in PositionIds :
        Started(p)
        => /\ st[p].stop_id # NoneVal
                => brokerStop[st[p].stop_id].symbol = st[p].symbol
           /\ \A i \in 1 .. Len(brokerSells[p]) :
                  brokerSells[p][i].symbol = st[p].symbol
           /\ \A q \in PositionIds :
                  (q # p /\ Started(q)) => st[q].symbol # st[p].symbol

C17_Isolation ==
    /\ [][C17_OnePositionPerStep]_vars
    /\ []C17_OwnOrders

C17_Witness ==
    /\ TpTerminal(1)
    /\ brokerStop[1].status = "canceled"
    /\ lastEvent[1] = "cancel:204"
    /\ pc[2] = "get_order"
    /\ cycle[2] = 2
    /\ brokerStop[2].status = "new"
    /\ sellLog[2] = << "rejected" >>

\* C18: whenever the webhook handler has entered a position (the entry buy
\* was accepted by the broker and filled), an exit supervisor was started
\* for it: its stop is placed and its monitor runs.
C18_EnteredIsSupervised ==
    (wh.pc = "done" /\ wh.entry.status = "filled")
    => /\ Started(WebhookPosition)
       /\ wh.exits_attached

\* C19: the reference price is the bid/ask midpoint when bid and ask are
\* both positive, otherwise the last trade price when it is positive,
\* otherwise unavailable; a failed or unparsable request is unavailable.
C19_MidpointOrLast ==
    quoteOut.done
    => LET q == quoteIn
           v == quoteOut.value
       IN  IF q.kind # "quote" THEN v = NoneVal
           ELSE IF q.bid > 0 /\ q.ask > 0 THEN 2 * v = q.bid + q.ask
           ELSE IF q.last > 0 THEN v = q.last
           ELSE v = NoneVal

\* C19 as amended: the midpoint is rounded to two decimals, so with an odd
\* number of cents between bid and ask the reference price is the cent
\* just below or just above the midpoint.
C19_RoundedMidpointOrLast ==
    quoteOut.done
    => LET q == quoteIn
           v == quoteOut.value
       IN  IF q.kind # "quote" THEN v = NoneVal
           ELSE IF q.bid > 0 /\ q.ask > 0
                THEN 2 * v - 1 <= q.bid + q.ask /\ q.bid + q.ask <= 2 * v + 1
           ELSE IF q.last > 0 THEN v = q.last
           ELSE v = NoneVal

C19_Witness ==
    /\ quoteOut.done
    /\ quoteIn = [kind |-> "quote", bid |-> 1, ask |-> 2, last |-> 4]
    /\ quoteOut.value = 1

\* C20: a status query that fails, or that returns anything but filled
\* (pending, canceled, expired, rejected), neither ends nor changes the
\* monitor: it stays Active and goes on to the take-profit check of the
\* same cycle.
C20_NotFilledStep ==
    \A p \in PositionIds :
        ( /\ pc[p] = "get_order"
          /\ pc'[p] # "get_order"
          /\ \/ lastEvent'[p] = "get_order:error"
             \/ brokerStop[st[p].stop_id].status # "filled" )
        => /\ pc'[p] = "quote"
           /\ st'[p] = st[p]
           /\ stopObserved'[p] = stopObserved[p]
           /\ cycle'[p] = cycle[p]

C20_QuoteFollows ==
    \A p \in PositionIds :
        pc[p] = "quote" => ~st[p].done /\ ENABLED Quote(p)

C20_OtherStatusIgnored ==
    /\ [][C20_NotFilledStep]_vars
    /\ []C20_QuoteFollows

C20_Witness ==
    /\ pc[1] = "quote"
    /\ lastEvent[1] = "get_order:other"
    /\ brokerStop[1].status = "expired"
    /\ cycle[1] = 2
    /\ ~st[1].done

\* C21: every take-profit sell submission comes after a status query of
\* the same cycle that did not report the stop filled, and the thread runs
\* its cycles one after the other: the next query starts only from the top
\* of the loop, which is reached only from the sleep that ends a cycle.
C21_SellQueried ==
    \A p \in PositionIds : pc[p] = "sell" => stopQueried[p]

C21_CyclesInOrder ==
    \A p \in PositionIds :
        /\ (pc'[p] = "get_order" /\ pc[p] # "get_order") => pc[p] = "loop"
        /\ (pc'[p] = "loop" /\ pc[p] # "loop") => pc[p] \in {"idle", "sleep"}
        /\ (pc'[p] = "sleep" /\ pc[p] # "sleep")
               => pc[p] \in {"quote", "sell", "cancel"}

C21_QueryBeforeSell ==
    /\ []C21_SellQueried
    /\ [][C21_CyclesInOrder]_vars

\* C22: under fair scheduling, once the stop order of a position is filled
\* at the broker while no take-profit sell has been accepted, and status
\* queries get answered, the monitor ends in StopFilled; and a monitor ends only by observing the stop filled or by
\* a take-profit sell that the broker accepted: there is no timeout.
\* the model stops counting sell submissions at MaxSellAttempts
SellBoundReached(p) == pc[p] = "sell" /\ Len(sellLog[p]) = MaxSellAttempts

C22_StopFillEndsMonitor ==
    \A p \in {1} :
        (Ordinary(p) /\ brokerStop[p].status = "filled" /\ ~st[p].tp_filled)
        ~> (StopTerminal(p) \/ SellBoundReached(p))

C22_NoTimeout ==
    \A p \in PositionIds :
        pc[p] = "exit" => (stopObserved[p] \/ st[p].tp_filled)

C22_Termination ==
    /\ C22_StopFillEndsMonitor
    /\ []C22_NoTimeout

\* the monitor ends at all once the stop is filled
C22_StopFillEnds ==
    \A p \in {1} :
        (Ordinary(p) /\ brokerStop[p].status = "filled" /\ ~st[p].tp_filled)
        ~> (pc[p] = "exit" \/ SellBoundReached(p))

\* C23: every take-profit order at the broker is a sell of the quantity
\* the position was entered with, on the position's symbol; it is a market
\* order when use_market_for_tp was given, otherwise a limit order at
\* take_profit_price.
C23_TpOrderShape ==
    \A p \in PositionIds :
        \A i \in 1 .. Len(brokerSells[p]) :
            LET o == brokerSells[p][i] IN
            /\ o.side = "sell"
            /\ o.symbol = p
            /\ o.symbol = st[p].symbol
            /\ o.qty = call[p].qty
            /\ IF call[p].use_market_for_tp
               THEN o.type = "market"
               ELSE o.type = "limit" /\ o.limit_price = st[p].tp_price

C23_Witness ==
    /\ Len(brokerSells[1]) = 1
    /\ brokerSells[1][1].type = "limit"
    /\ brokerSells[1][1].limit_price = 380
    /\ brokerSells[1][1].qty = 2
    /\ ~call[1].use_market_for_tp
    /\ lastEvent[1] = "sell:accepted"

\* C24: a monitor that start_monitor has started holds the id of the stop
\* order that call placed, and every cycle of its loop begins with the
\* status query of that order: the stop-fill check is never skipped.
C24_HoldsStopId ==
    \A p \in PositionIds :
        Started(p)
        => /\ st[p].stop_id # NoneVal
           /\ brokerStop[st[p].stop_id].symbol = st[p].symbol
           /\ brokerStop[st[p].stop_id].status # "none"

C24_CycleBeginsWithQuery ==
    \A p \in PositionIds :
        (pc[p] = "loop" /\ pc'[p] # "loop" /\ ~st[p].done)
        => pc'[p] = "get_order"

C24_StopIdAlwaysHeld ==
    /\ []C24_HoldsStopId
    /\ [][C24_CycleBeginsWithQuery]_vars

\* C25: the terminal state is absorbing: a monitor whose done flag is set
\* has left its loop, and from then on it makes no status query, quote
\* fetch, sell submission or cancellation for its position.
C25_DoneHasLeft ==
    \A p \in PositionIds : st[p].done => pc[p] = "exit"

C25_DoneStep ==
    \A p \in PositionIds :
        st[p].done
        => /\ pc'[p] = pc[p]
           /\ st'[p] = st[p]
           /\ px'[p] = px[p]
           /\ lastEvent'[p] = lastEvent[p]
           /\ sellLog'[p] = sellLog[p]
           /\ Len(brokerSells'[p]) = Len(brokerSells[p])
           /\ cancelCalls'[p] = cancelCalls[p]
           /\ cycle'[p] = cycle[p]
           /\ stopQueried'[p] = stopQueried[p]

C25_TerminalAbsorbing ==
    /\ []C25_DoneHasLeft
    /\ [][C25_DoneStep]_vars

C25_Witness ==
    /\ st[1].done
    /\ pc[1] = "exit"
    /\ lastEvent[1] = "cancel:404"
    /\ brokerStop[1].status = "filled"
    /\ Len(brokerSells[1]) = 1
    /\ brokerSells[1][1].filled

\* C26: when the market clock reports closed, process_webhook_signal
\* places no entry order at the broker, records the order as queued, and
\* returns a result with success false and action queued.
C26_ClosedQueues ==
    wh.clock = "closed"
    => /\ wh.entry.status = "none"
       /\ wh.order_status = "queued"
       /\ Returned => /\ ~wh.result.success
                      /\ "action" \in DOMAIN wh.result
                      /\ wh.result.action = "queued"

\* C26 as amended: the returned result carries action queued when the
\* commit of the queued record succeeded; when that commit raised, the
\* result is the error handler's, with success false and no action.
C26_ClosedQueuesOrErrors ==
    wh.clock = "closed"
    => /\ wh.entry.status = "none"
       /\ wh.alpaca_order_id = NoneVal
       /\ wh.order_status = "queued"
       /\ Returned => /\ ~wh.result.success
                      /\ wh.commit = "ok" => wh.result = QueuedResult
                      /\ wh.commit = "raise"
                             => wh.result = ErrorResult(DbOrderId)

C26_Witness ==
    /\ wh.pc = "done"
    /\ wh.clock = "closed"
    /\ wh.commit = "ok"
    /\ wh.result = QueuedResult
    /\ wh.order_status = "queued"
    /\ ~wh.exits_attached

\* C27: an order queued because the market was closed is submitted to the
\* broker once the market is open.
C27_QueuedIsSubmitted ==
    (wh.order_status = "queued" /\ marketOpen)
    ~> (wh.order_status = "submitted" \/ wh.entry.status # "none")

\* C28: when process_webhook_signal has returned, the order record it
\* created is queued, submitted or failed, never processing; it is
\* submitted only when the broker's answer carried an order id; and the
\* error handler never turns a queued or submitted record into failed.
C28_StatusOnReturn ==
    (Returned /\ wh.order_status # "none")
    => /\ wh.order_status \in {"queued", "submitted", "failed"}
       /\ wh.order_status = "submitted"
              => /\ wh.alpaca_order_id = EntryOrderId
                 /\ wh.entry.id = EntryOrderId
       /\ wh.order_status = "queued" => wh.clock = "closed"

C28_HandlerKeepsStatus ==
    wh.order_status \in {"queued", "submitted"}
    => wh'.order_status = wh.order_status

C28_NeverLeftProcessing ==
    /\ []C28_StatusOnReturn
    /\ [][C28_HandlerKeepsStatus]_vars

C28_Witness ==
    /\ Returned
    /\ wh.commit = "raise"
    /\ wh.order_status = "submitted"
    /\ wh.result = ErrorResult(DbOrderId)
    /\ wh.entry.status = "filled"

====
